---- MODULE Spec2Model ----
(***************************************************************************)
(* Model of Av1an's chunk queue (Av1an/chunk_queue.py) and of the VMAF     *)
(* scoring pipeline (av1an/vmaf.py).                                       *)
(*                                                                         *)
(* Queue part: one working directory (args.temp) with its chunks.json and  *)
(* its DoneRecord, the inputs of a run (chunk method, probed frame count,  *)
(* split locations, the split directory's listing) and the outcome of the  *)
(* last call of load_or_gen_chunk_queue.                                   *)
(* Pipeline part: one call of VMAF.call_vmaf per chunk, each a pair of OS  *)
(* processes.                                                              *)
(***************************************************************************)
EXTENDS Integers, Sequences, FiniteSets, TLC

\* ------------------------------------------------------------------ bounds
MaxF == 4          \* largest probed frame count and largest split index
MaxSplits == 3     \* longest split_locations list
MaxSegs == 2       \* most segment files the segmentation step leaves
MaxSize == 2       \* largest st_size of a segment file
NumPipelines == 2  \* chunks whose score pipelines run concurrently

VARIABLES
    chunk_method,     \* args.chunk_method
    last_frame,       \* what frame_probe(args.input) returns
    split_locations,  \* the split_locations argument
    split_dir,        \* listing of args.temp / 'split' after segment(), in iterdir order
    chunks_json,      \* the file args.temp / 'chunks.json'
    done,             \* key set of read_done_data(args.temp)['done']
    last,             \* outcome of the last call of load_or_gen_chunk_queue
    pipes             \* per chunk: the state of its call of VMAF.call_vmaf

vars == <<chunk_method, last_frame, split_locations, split_dir, chunks_json, done, last, pipes>>
queueVars == <<chunk_method, last_frame, split_locations, split_dir, chunks_json, done, last>>

\* ------------------------------------------------------------- utilities
Range(s) == {s[i] : i \in 1..Len(s)}

RECURSIVE SumSeq(_)
SumSeq(s) == IF s = <<>> THEN 0 ELSE Head(s) + SumSeq(Tail(s))

SeqsUpTo(S, n) == UNION {[1..k -> S] : k \in 0..n}

Perms(n) == {p \in [1..n -> 1..n] : \A i, j \in 1..n : p[i] = p[j] => i = j}

\* ---------------------------------------------------------------- tokens
\* A command token is a Python value: a str (an f-string keeps the numbers
\* formatted into it in n), an int, or a pathlib.Path.
Str(s) == [t |-> "str", s |-> s, n |-> <<>>]
FStr(s, nums) == [t |-> "str", s |-> s, n |-> nums]
IntTok(i) == [t |-> "int", s |-> "", n |-> <<i>>]
PathTok(p) == [t |-> "Path", s |-> p, n |-> <<>>]

\* A command is a Python tuple or list of tokens.
TupleCmd(toks) == [kind |-> "tuple", toks |-> toks]
ListCmd(toks) == [kind |-> "list", toks |-> toks]

\* *args.pix_format
pix_format == <<Str("-pix_fmt"), Str("yuv420p")>>

\* get_file_extension_for_encoder(args.encoder)
get_file_extension_for_encoder == "ivf"

\* ----------------------------------------------------------------- Chunk
\* Chunk(temp, index, ffmpeg_gen_cmd, output_ext, size, frames): pass_cmds
\* starts empty.
Chunk(index, ffmpeg_gen_cmd, output_ext, size, frames) ==
    [index |-> index, ffmpeg_gen_cmd |-> ffmpeg_gen_cmd, output_ext |-> output_ext,
     size |-> size, frames |-> frames, pass_cmds |-> <<>>]

\* chunk.generate_pass_cmds(args): attaches the encoder's pass commands.
generate_pass_cmds(chunk) ==
    [chunk EXCEPT !.pass_cmds =
        << ListCmd(<<Str("encoder"), Str("-o"), FStr("chunk", <<chunk.index>>)>>) >>]

\* chunk.name: the index as five zero-padded decimal digits.
ChunkName(index) ==
    <<(index \div 10000) % 10, (index \div 1000) % 10, (index \div 100) % 10,
      (index \div 10) % 10, index % 10>>

\* ------------------------------------------------------- boundary pairs
\* zip(l, l[1:])
Zip(l) == [i \in 1..(IF Len(l) = 0 THEN 0 ELSE Len(l) - 1) |-> <<l[i], l[i + 1]>>]

\* The outcome of a queue builder: the exception it raised ("none": it
\* returned queue), whether chunk_boundaries was computed and its pairs, and
\* how many chunks had been built when it ended.
BuilderOutcome(exc, queue, derived, pairs, built) ==
    [exc |-> exc, queue |-> queue, derived |-> derived, pairs |-> pairs, built |-> built]

\* create_select_chunk, past its assertion
create_select_chunk(index, frame_start, frame_end) ==
    LET frames == frame_end - frame_start
        end == frame_end - 1
        ffmpeg_gen_cmd == TupleCmd(
            <<Str("ffmpeg"), Str("-y"), Str("-hide_banner"), Str("-loglevel"), Str("error"),
              Str("-i"), Str("src_path"), Str("-vf"),
              FStr("select=between,setpts=PTS-STARTPTS", <<frame_start, end>>)>>
            \o pix_format
            \o <<Str("-bufsize"), Str("50000K"), Str("-f"), Str("yuv4mpegpipe"), Str("-")>>)
        size == frames
    IN  generate_pass_cmds(Chunk(index, ffmpeg_gen_cmd, get_file_extension_for_encoder, size, frames))

\* create_vsffms2_chunk, past its assertion: load_script is a Path and the
\* frame numbers are ints, put into the tuple as they are.
create_vsffms2_chunk(index, frame_start, frame_end) ==
    LET frames == frame_end - frame_start
        end == frame_end - 1
        ffmpeg_gen_cmd == TupleCmd(
            <<Str("vspipe"), PathTok("loadscript.vpy"), Str("-y"), Str("-"),
              Str("-s"), IntTok(frame_start), Str("-e"), IntTok(end)>>)
        size == frames
    IN  generate_pass_cmds(Chunk(index, ffmpeg_gen_cmd, get_file_extension_for_encoder, size, frames))

\* The assertion both chunk constructors start with.
AssertFrames(frame_start, frame_end) == frame_end > frame_start

\* [create_X_chunk(args, index, ..., *cb) for index, cb in enumerate(chunk_boundaries)]:
\* the first pair that fails the assertion ends the comprehension with
\* AssertionError, and the chunks built so far are dropped.
BuildFromPairs(method, pairs) ==
    LET bad == {i \in 1..Len(pairs) : ~AssertFrames(pairs[i][1], pairs[i][2])}
        first == CHOOSE i \in bad : \A j \in bad : i <= j
        mk(i) == IF method = "select"
                 THEN create_select_chunk(i - 1, pairs[i][1], pairs[i][2])
                 ELSE create_vsffms2_chunk(i - 1, pairs[i][1], pairs[i][2])
    IN  IF bad # {}
        THEN BuilderOutcome("AssertionError", <<>>, TRUE, pairs, first - 1)
        ELSE BuilderOutcome("none", [i \in 1..Len(pairs) |-> mk(i)], TRUE, pairs, Len(pairs))

\* create_video_queue_vsffms2
create_video_queue_vsffms2(F, S) ==
    LET split_locs_fl == <<0>> \o S \o <<F>>
        chunk_boundaries == Zip(split_locs_fl)
    IN  BuildFromPairs("vs_ffms2", chunk_boundaries)

\* create_video_queue_select: split_locs_fl is bound only when 0 is not in
\* split_locations, and the last frame is appended to split_locations, a list
\* that is not read again.
create_video_queue_select(F, S) ==
    IF 0 \in Range(S)
    THEN BuilderOutcome("UnboundLocalError", <<>>, FALSE, <<>>, 0)
    ELSE LET split_locs_fl == <<0>> \o S
             chunk_boundaries == Zip(split_locs_fl)
         IN  BuildFromPairs("select", chunk_boundaries)

\* ------------------------------------------------------ segment strategy
\* A file of the split directory. The segmentation step names its files by a
\* zero-padded counter, so the stems are strings of one length and their
\* lexicographic order is the order of the counters: stem is the counter.
SplitFile(stem, suffix, st_size, frames) ==
    [stem |-> stem, suffix |-> suffix, st_size |-> st_size, frames |-> frames]

\* queue_files.sort(key=lambda p: p.stem): ascending and stable
InsertByStem(sorted, x) ==
    LET k == Cardinality({i \in 1..Len(sorted) : sorted[i].stem <= x.stem})
    IN  SubSeq(sorted, 1, k) \o <<x>> \o SubSeq(sorted, k + 1, Len(sorted))

SortByStem(files) ==
    LET f[i \in 0..Len(files)] == IF i = 0 THEN <<>> ELSE InsertByStem(f[i - 1], files[i])
    IN  f[Len(files)]

\* utils.terminate(): the process exits; nothing after the call runs.
terminate == "SystemExit"

\* create_chunk_from_segment
create_chunk_from_segment(index, file) ==
    LET ffmpeg_gen_cmd == TupleCmd(
            <<Str("ffmpeg"), Str("-y"), Str("-hide_banner"), Str("-loglevel"), Str("error"),
              Str("-i"), FStr("split/%05d.mkv", <<file.stem>>)>>
            \o pix_format
            \o <<Str("-bufsize"), Str("50000K"), Str("-f"), Str("yuv4mpegpipe"), Str("-")>>)
        file_size == file.st_size
        frames == file.frames
    IN  generate_pass_cmds(Chunk(index, ffmpeg_gen_cmd, get_file_extension_for_encoder, file_size, frames))

\* The same without the len(queue_files) == 0 check.
create_video_queue_segment_unchecked(dir) ==
    LET queue_files == SortByStem(SelectSeq(dir, LAMBDA x : x.suffix = ".mkv"))
    IN  BuilderOutcome("none",
            [i \in 1..Len(queue_files) |-> create_chunk_from_segment(i - 1, queue_files[i])],
            FALSE, <<>>, Len(queue_files))

\* create_video_queue_segment, after segment() has left dir behind
create_video_queue_segment(dir) ==
    LET queue_files == SortByStem(SelectSeq(dir, LAMBDA x : x.suffix = ".mkv"))
    IN  IF Len(queue_files) = 0
        THEN BuilderOutcome(terminate, <<>>, FALSE, <<>>, 0)
        ELSE BuilderOutcome("none",
                [i \in 1..Len(queue_files) |-> create_chunk_from_segment(i - 1, queue_files[i])],
                FALSE, <<>>, Len(queue_files))

\* --------------------------------------------------------- priority sort
\* chunk_queue.sort(key=lambda c: c.size, reverse=True): list.sort is stable,
\* also with reverse=True (equal keys keep their order).
InsertBySizeDesc(sorted, x) ==
    LET k == Cardinality({i \in 1..Len(sorted) : sorted[i].size >= x.size})
    IN  SubSeq(sorted, 1, k) \o <<x>> \o SubSeq(sorted, k + 1, Len(sorted))

\* A descending sort that puts a chunk before the chunks of its size already
\* placed (what reversing an ascending sort does).
InsertBySizeDescTiesReversed(sorted, x) ==
    LET k == Cardinality({i \in 1..Len(sorted) : sorted[i].size > x.size})
    IN  SubSeq(sorted, 1, k) \o <<x>> \o SubSeq(sorted, k + 1, Len(sorted))

SortBySizeDescTiesReversed(queue) ==
    LET f[i \in 0..Len(queue)] ==
            IF i = 0 THEN <<>> ELSE InsertBySizeDescTiesReversed(f[i - 1], queue[i])
    IN  f[Len(queue)]

\* No sort at all.
SortBySizeDescSkipped(queue) == queue

SortBySizeDesc(queue) ==
    LET f[i \in 0..Len(queue)] == IF i = 0 THEN <<>> ELSE InsertBySizeDesc(f[i - 1], queue[i])
    IN  f[Len(queue)]

\* create_encoding_queue: dispatch on args.chunk_method, then sort in place.
create_encoding_queue(method, F, S, dir) ==
    LET b == CASE method = "segment" -> create_video_queue_segment(dir)
               [] method = "select" -> create_video_queue_select(F, S)
               [] method = "vs_ffms2" -> create_video_queue_vsffms2(F, S)
    IN  IF b.exc # "none" THEN b ELSE [b EXCEPT !.queue = SortBySizeDesc(b.queue)]

\* ------------------------------------------------------------ chunks.json
\* The file: absent, a JSON document (a list of dicts), or the text json.dump
\* had written when it raised.
NoFile == [state |-> "absent", dicts |-> <<>>]
PartialFile == [state |-> "partial", dicts |-> <<>>]
JsonFile(dicts) == [state |-> "ok", dicts |-> dicts]

\* Chunk.to_dict: the chunk's fields as a dict, the commands as they are.
to_dict(c) ==
    [index |-> c.index, ffmpeg_gen_cmd |-> c.ffmpeg_gen_cmd, size |-> c.size,
     frames |-> c.frames, output_ext |-> c.output_ext, pass_cmds |-> c.pass_cmds]

\* json: a tuple or a list is written as an array and read back as a list; a
\* str and an int are read back as they were; a Path is not serializable.
JsonSerializable(cmd) == \A i \in 1..Len(cmd.toks) : cmd.toks[i].t \in {"str", "int"}
JsonArray(cmd) == ListCmd(cmd.toks)

DictSerializable(d) ==
    /\ JsonSerializable(d.ffmpeg_gen_cmd)
    /\ \A i \in 1..Len(d.pass_cmds) : JsonSerializable(d.pass_cmds[i])

JsonDict(d) ==
    [d EXCEPT !.ffmpeg_gen_cmd = JsonArray(d.ffmpeg_gen_cmd),
              !.pass_cmds = [i \in 1..Len(d.pass_cmds) |-> JsonArray(d.pass_cmds[i])]]

\* save_chunk_queue: open(..., 'w') truncates the file, json.dump writes the
\* document piece by piece and raises TypeError at the first value it cannot
\* serialize, leaving the text written so far.
save_chunk_queue(chunk_queue) ==
    LET chunk_dicts == [i \in 1..Len(chunk_queue) |-> to_dict(chunk_queue[i])]
    IN  IF \A i \in 1..Len(chunk_dicts) : DictSerializable(chunk_dicts[i])
        THEN [exc |-> "none", file |-> JsonFile([i \in 1..Len(chunk_dicts) |-> JsonDict(chunk_dicts[i])])]
        ELSE [exc |-> "TypeError", file |-> PartialFile]

\* Chunk.create_from_dict(cd, temp)
create_from_dict(d) ==
    [Chunk(d.index, d.ffmpeg_gen_cmd, d.output_ext, d.size, d.frames)
        EXCEPT !.pass_cmds = d.pass_cmds]

\* read_chunk_queue
read_chunk_queue(file) ==
    CASE file.state = "absent" -> [exc |-> "FileNotFoundError", queue |-> <<>>]
      [] file.state = "partial" -> [exc |-> "JSONDecodeError", queue |-> <<>>]
      [] file.state = "ok" ->
            [exc |-> "none", queue |-> [i \in 1..Len(file.dicts) |-> create_from_dict(file.dicts[i])]]

\* [c for c in chunk_queue if c.name in done_chunk_names]
KeepDone(chunk_queue, done_chunk_names) ==
    SelectSeq(chunk_queue, LAMBDA c : ChunkName(c.index) \in done_chunk_names)

\* [c for c in chunk_queue if c.name not in done_chunk_names]
FilterNotDone(chunk_queue, done_chunk_names) ==
    SelectSeq(chunk_queue, LAMBDA c : ChunkName(c.index) \notin done_chunk_names)

\* ------------------------------------------------------------- the runs
\* What segment(args.input, args.temp, split_locations) may leave in the split
\* directory of a source of F frames: no file at all (it failed silently), or
\* up to MaxSegs .mkv files that hold the F frames between them, in any
\* listing order, with or without a file of another suffix beside them.
SegmentListings(F) ==
    LET comps == {fr \in SeqsUpTo(1..MaxF, MaxSegs) : fr # <<>> /\ SumSeq(fr) = F} \cup {<<>>}
    IN  UNION { UNION { { (IF other THEN <<SplitFile(0, ".txt", 1, 0)>> ELSE <<>>)
                           \o [i \in 1..Len(fr) |-> SplitFile(p[i] - 1, ".mkv", sz[p[i]], fr[p[i]])]
                         : p \in Perms(Len(fr)), other \in BOOLEAN }
                       : sz \in [1..Len(fr) -> 1..MaxSize] }
              : fr \in comps }

\* The outcome of a call of load_or_gen_chunk_queue.
Outcome(op, exc, assembled, returned, queue, b, done_chunk_names) ==
    [op |-> op, exc |-> exc, assembled |-> assembled, returned |-> returned, queue |-> queue,
     derived |-> b.derived, pairs |-> b.pairs, built |-> b.built,
     done_chunk_names |-> done_chunk_names]

NoBuilder == BuilderOutcome("none", <<>>, FALSE, <<>>, 0)

\* A pipeline before call_vmaf is called for its chunk.
NoProcess == [status |-> "none", returncode |-> -1, cmd |-> <<>>, stdin |-> <<>>, stdout |-> <<>>]
IdlePipeline == [pc |-> "idle", ffmpeg_gen_pipe |-> NoProcess, pipe |-> NoProcess,
                 waited |-> {}, fl_path |-> <<>>, result |-> <<>>]
Pipelines == 0..(NumPipelines - 1)

Init ==
    /\ chunk_method \in {"segment", "select", "vs_ffms2"}
    /\ last_frame \in 0..MaxF
    /\ split_locations \in (IF chunk_method = "segment" THEN {<<>>} ELSE SeqsUpTo(0..MaxF, MaxSplits))
    /\ split_dir \in (IF chunk_method = "segment" THEN SegmentListings(last_frame) ELSE {<<>>})
    /\ chunks_json = NoFile
    /\ done = {}
    /\ last = Outcome("none", "none", FALSE, FALSE, <<>>, NoBuilder, {})
    /\ pipes = [c \in Pipelines |-> IdlePipeline]

\* load_or_gen_chunk_queue(args, False, split_locations) in a working
\* directory that holds no chunks.json yet.
FreshRun ==
    /\ chunks_json.state = "absent"
    /\ LET b == create_encoding_queue(chunk_method, last_frame, split_locations, split_dir)
           s == save_chunk_queue(b.queue)
       IN  IF b.exc # "none"
           THEN /\ last' = Outcome("fresh", b.exc, FALSE, FALSE, <<>>, b, {})
                /\ UNCHANGED chunks_json
           ELSE /\ chunks_json' = s.file
                /\ last' = Outcome("fresh", s.exc, TRUE, s.exc = "none", b.queue, b, {})
    /\ UNCHANGED <<chunk_method, last_frame, split_locations, split_dir, done, pipes>>

\* A resume that also writes the filtered queue back to chunks.json.
ResumeRewritingStore ==
    /\ LET r == read_chunk_queue(chunks_json)
           done_chunk_names == done
           chunk_queue == FilterNotDone(r.queue, done_chunk_names)
       IN  /\ last' = Outcome("resume", r.exc, FALSE, r.exc = "none",
                              IF r.exc = "none" THEN chunk_queue ELSE <<>>, NoBuilder, done_chunk_names)
           /\ chunks_json' = IF r.exc = "none" THEN save_chunk_queue(chunk_queue).file ELSE chunks_json
    /\ UNCHANGED <<chunk_method, last_frame, split_locations, split_dir, done, pipes>>

\* load_or_gen_chunk_queue(args, True, split_locations)
Resume ==
    /\ LET r == read_chunk_queue(chunks_json)
           done_chunk_names == done
           chunk_queue == FilterNotDone(r.queue, done_chunk_names)
       IN  last' = Outcome("resume", r.exc, FALSE, r.exc = "none",
                           IF r.exc = "none" THEN chunk_queue ELSE <<>>, NoBuilder, done_chunk_names)
    /\ UNCHANGED <<chunk_method, last_frame, split_locations, split_dir, chunks_json, done, pipes>>

\* The worker pool (outside this code) records a chunk of the queue it was
\* handed as done.
MarkDone(name) ==
    /\ last.returned
    /\ name \in {ChunkName(last.queue[i].index) : i \in 1..Len(last.queue)}
    /\ name \notin done
    /\ done' = done \cup {name}
    /\ UNCHANGED <<chunk_method, last_frame, split_locations, split_dir, chunks_json, last, pipes>>

Next ==
    \/ FreshRun
    \/ Resume
    \/ \E i \in 0..(MaxSplits + MaxSegs) : MarkDone(ChunkName(i))

Spec == Init /\ [][Next]_vars

\* ------------------------------------------------------- VMAF.call_vmaf
\* The OS pipe subprocess.Popen makes for stdout=PIPE of chunk c's upstream.
StdoutPipe(c) == <<"stdout of ffmpeg_gen_pipe", c>>

\* fl_path defaults to (chunk.temp / "split") / f"{chunk.name}.json"
DefaultFlPath(c) == <<"split", ChunkName(c), ".json">>

\* call_vmaf up to and with ffmpeg_gen_pipe = subprocess.Popen(chunk.ffmpeg_gen_cmd,
\* stdout=PIPE, stderr=STDOUT); given is the fl_path argument (<<>>: None).
PopenUpstream(c, given) ==
    /\ pipes[c].pc = "idle"
    /\ pipes' = [pipes EXCEPT ![c] =
            [@ EXCEPT !.pc = "upstream_started",
                      !.fl_path = IF given = <<>> THEN DefaultFlPath(c) ELSE given,
                      !.ffmpeg_gen_pipe = [status |-> "running", returncode |-> -1,
                                           cmd |-> <<"chunk.ffmpeg_gen_cmd", c>>,
                                           stdin |-> <<>>, stdout |-> StdoutPipe(c)]]]
    /\ UNCHANGED queueVars

\* A downstream process that reads a pipe of its own.
PopenDownstreamOwnStdin(c) ==
    /\ pipes[c].pc = "upstream_started"
    /\ pipes' = [pipes EXCEPT ![c] =
            [@ EXCEPT !.pc = "downstream_started",
                      !.pipe = [status |-> "running", returncode |-> -1,
                                cmd |-> <<"cmd", c>>,
                                stdin |-> <<"stdin of pipe", c>>,
                                stdout |-> <<"stdout of pipe", c>>]]]
    /\ UNCHANGED queueVars

\* pipe = subprocess.Popen(cmd, stdin=ffmpeg_gen_pipe.stdout, stdout=PIPE, ...)
PopenDownstream(c) ==
    /\ pipes[c].pc = "upstream_started"
    /\ pipes' = [pipes EXCEPT ![c] =
            [@ EXCEPT !.pc = "downstream_started",
                      !.pipe = [status |-> "running", returncode |-> -1,
                                cmd |-> <<"cmd", c>>,
                                stdin |-> pipes[c].ffmpeg_gen_pipe.stdout,
                                stdout |-> <<"stdout of pipe", c>>]]]
    /\ UNCHANGED queueVars

\* The operating system: a running process exits with a return code.
ProcessExits(c, which, code) ==
    /\ pipes[c][which].status = "running"
    /\ pipes' = [pipes EXCEPT ![c][which] = [@ EXCEPT !.status = "exited", !.returncode = code]]
    /\ UNCHANGED queueVars

\* process_pipe(pipe, chunk, utility) waits for the downstream process and for
\* the utility (upstream) process to exit.
ProcessPipeWait(c, which) ==
    /\ pipes[c].pc = "downstream_started"
    /\ which \notin pipes[c].waited
    /\ pipes[c][which].status = "exited"
    /\ pipes' = [pipes EXCEPT ![c].waited = @ \cup {which}]
    /\ UNCHANGED queueVars

\* process_pipe ends, raising when a process failed; call_vmaf returns fl_path
\* when it did not raise.
ProcessPipeEnd(c) ==
    /\ pipes[c].pc = "downstream_started"
    /\ pipes[c].waited = {"pipe", "ffmpeg_gen_pipe"}
    /\ pipes' = [pipes EXCEPT ![c] =
            IF pipes[c].pipe.returncode = 0 /\ pipes[c].ffmpeg_gen_pipe.returncode = 0
            THEN [@ EXCEPT !.pc = "returned", !.result = pipes[c].fl_path]
            ELSE [@ EXCEPT !.pc = "raised"]]
    /\ UNCHANGED queueVars

InitVmaf ==
    /\ chunk_method = "select"
    /\ last_frame = MaxF
    /\ split_locations = <<>>
    /\ split_dir = <<>>
    /\ chunks_json = NoFile
    /\ done = {}
    /\ last = Outcome("none", "none", FALSE, FALSE, <<>>, NoBuilder, {})
    /\ pipes = [c \in Pipelines |-> IdlePipeline]

NextVmaf ==
    \/ \E c \in Pipelines, given \in {<<>>, <<"fl_path">>} : PopenUpstream(c, given)
    \/ \E c \in Pipelines : PopenDownstream(c)
    \/ \E c \in Pipelines, which \in {"pipe", "ffmpeg_gen_pipe"}, code \in {0, 1} :
            ProcessExits(c, which, code)
    \/ \E c \in Pipelines, which \in {"pipe", "ffmpeg_gen_pipe"} : ProcessPipeWait(c, which)
    \/ \E c \in Pipelines : ProcessPipeEnd(c)

SpecVmaf == InitVmaf /\ [][NextVmaf]_vars

\* ================================================================ claims
FrameCounts(queue) == [i \in 1..Len(queue) |-> queue[i].frames]

\* Sorted by size, largest first, chunks of one size in construction order
\* (index is the position at which the builder made the chunk).
PrioritySorted(q) ==
    \A i, j \in 1..Len(q) :
        i < j => /\ q[i].size >= q[j].size
                 /\ (q[i].size = q[j].size => q[i].index < q[j].index)

\* pairs is a partition of [0, F) into non-empty ranges.
IsPartition(pairs, F) ==
    /\ Len(pairs) >= 1
    /\ pairs[1][1] = 0
    /\ pairs[Len(pairs)][2] = F
    /\ \A i \in 1..Len(pairs) : pairs[i][1] < pairs[i][2]
    /\ \A i \in 1..(Len(pairs) - 1) : pairs[i][2] = pairs[i + 1][1]

\* Two commands hold the same tokens in the same order.
SameTokens(a, b) == a.toks = b.toks

\* Two chunks agree field for field.
SameChunk(a, b) ==
    /\ a.index = b.index
    /\ SameTokens(a.ffmpeg_gen_cmd, b.ffmpeg_gen_cmd)
    /\ Len(a.pass_cmds) = Len(b.pass_cmds)
    /\ \A i \in 1..Len(a.pass_cmds) : SameTokens(a.pass_cmds[i], b.pass_cmds[i])
    /\ a.output_ext = b.output_ext
    /\ a.size = b.size
    /\ a.frames = b.frames

SameQueue(p, q) == Len(p) = Len(q) /\ \A i \in 1..Len(p) : SameChunk(p[i], q[i])

\* C1: for F > 0 and any split list, the boundary pairs the select and vs_ffms2
\* builders derive are a partition of [0, F): sorted, from 0, to F, adjacent
\* pairs sharing their index; the single pair (0, F) when the list is empty.
C1_PairsPartition ==
    (chunk_method \in {"select", "vs_ffms2"} /\ last.op = "fresh" /\ last_frame > 0)
        => /\ last.derived
           /\ IsPartition(last.pairs, last_frame)
           /\ (split_locations = <<>> => last.pairs = << <<0, last_frame>> >>)

\* The source has frames and the split locations are strictly increasing
\* frame numbers inside it.
WellFormedInput ==
    /\ last_frame > 0
    /\ \A i \in 1..Len(split_locations) : split_locations[i] \in 1..(last_frame - 1)
    /\ \A i \in 1..(Len(split_locations) - 1) : split_locations[i] < split_locations[i + 1]

\* C2: the frame counts of the queue create_encoding_queue returns add up to
\* the probed frame count of the source, whatever the strategy (stated here
\* for well-formed inputs, where it already fails).
C2_FramesSum ==
    (last.op = "fresh" /\ last.assembled /\ WellFormedInput)
        => SumSeq(FrameCounts(last.queue)) = last_frame

\* C3: the queue create_encoding_queue returns is sorted by size, largest
\* first, and chunks of equal size keep their construction order.
C3_SortedStable ==
    (last.op = "fresh" /\ last.assembled) => PrioritySorted(last.queue)

\* C3's case: a returned queue of three chunks or more that the sort has
\* reordered and that holds two chunks of one size.
C3_Witness ==
    /\ last.op = "fresh" /\ last.assembled /\ Len(last.queue) >= 3
    /\ \E i, j \in 1..Len(last.queue) : i < j /\ last.queue[i].index > last.queue[j].index
    /\ \E i, j \in 1..Len(last.queue) : i < j /\ last.queue[i].size = last.queue[j].size

\* C4: a resume run returns exactly the chunks of the persisted queue whose
\* name is not in the DoneRecord it read, in the order they were persisted.
C4_ResumeFilters ==
    (last.op = "resume" /\ last.returned) =>
        LET P == read_chunk_queue(chunks_json).queue
            Q == last.queue
            D == last.done_chunk_names
            kept == {i \in 1..Len(P) : ChunkName(P[i].index) \notin D}
            pos(c) == CHOOSE i \in 1..Len(P) : P[i] = c
        IN  /\ Len(Q) = Cardinality(kept)
            /\ \A i \in 1..Len(Q) : \E k \in kept : P[k] = Q[i]
            /\ \A k \in kept : \E i \in 1..Len(Q) : Q[i] = P[k]
            /\ \A i, j \in 1..Len(Q) : i < j => pos(Q[i]) < pos(Q[j])

\* C4's case: a resume that dropped a done chunk and returned two or more
\* chunks that are not in index order.
C4_Witness ==
    /\ last.op = "resume" /\ last.returned
    /\ last.done_chunk_names # {}
    /\ Len(last.queue) >= 2
    /\ Len(last.queue) < Len(chunks_json.dicts)
    /\ last.queue[1].index > last.queue[2].index

\* C5: reading chunks.json after saving an assembled queue gives the queue
\* back, same length, same order, every chunk equal field for field.
C5_RoundTrip ==
    (last.op = "fresh" /\ last.assembled) =>
        LET r == read_chunk_queue(chunks_json)
        IN  r.exc = "none" /\ SameQueue(r.queue, last.queue)

NoMkv(dir) == \A i \in 1..Len(dir) : dir[i].suffix # ".mkv"

\* C6: with the segment strategy and no .mkv file in the split directory the
\* run terminates: no chunk is built, no queue is returned, chunks.json is
\* not written.
C6_NoSegmentsTerminates ==
    (chunk_method = "segment" /\ last.op = "fresh" /\ NoMkv(split_dir)) =>
        /\ last.exc = terminate
        /\ ~last.assembled /\ ~last.returned
        /\ last.built = 0 /\ last.queue = <<>>
        /\ chunks_json = NoFile

\* C6's case: a fresh segment run over a split directory that holds a file,
\* none with the .mkv suffix.
C6_Witness ==
    /\ chunk_method = "segment" /\ last.op = "fresh"
    /\ NoMkv(split_dir) /\ Len(split_dir) = 1

\* C7: select and vs_ffms2 assembly fails on its assertion whenever F <= 0 or
\* a derived pair has end <= start, and then returns and persists nothing.
C7_InvalidBoundary ==
    (/\ chunk_method \in {"select", "vs_ffms2"} /\ last.op = "fresh"
     /\ \/ last_frame <= 0
        \/ last.derived /\ \E i \in 1..Len(last.pairs) : last.pairs[i][2] <= last.pairs[i][1])
        => /\ last.exc = "AssertionError"
           /\ ~last.returned
           /\ chunks_json = NoFile

\* C8, as claimed: the document a fresh run persists lists the chunks in
\* construction order (ascending index), the priority sort not being in it.
C8_StoredInsertionOrder ==
    (last.op = "fresh" /\ last.returned /\ last_frame > 0) =>
        \A i \in 1..Len(chunks_json.dicts) : chunks_json.dicts[i].index = i - 1

\* C8, amended: the document a fresh run persists lists the chunks in the
\* priority order of the queue it returns (size non-increasing, equal sizes by
\* ascending index): the sort is done before the save.
C8_StoredPrioritySorted ==
    /\ chunks_json.state = "ok" => PrioritySorted(chunks_json.dicts)
    /\ (last.op = "fresh" /\ last.returned) =>
            /\ chunks_json.state = "ok"
            /\ Len(chunks_json.dicts) = Len(last.queue)
            /\ \A i \in 1..Len(last.queue) : chunks_json.dicts[i].index = last.queue[i].index

\* C8's case: a persisted document that is not in index order.
C8_Witness ==
    /\ last.op = "fresh" /\ last.returned
    /\ \E i \in 1..(Len(chunks_json.dicts) - 1) :
            chunks_json.dicts[i].index > chunks_json.dicts[i + 1].index

\* C9: once a fresh run has persisted the queue document no step changes it,
\* and a resume run changes neither the document nor the DoneRecord.
C9_ResumeWritesNothing ==
    [][ /\ chunks_json.state = "ok" => chunks_json' = chunks_json
        /\ (last' # last /\ last'.op = "resume") => (done' = done /\ chunks_json' = chunks_json)
      ]_vars

\* C9's case: a resume over a persisted document with two done chunks, which
\* the returned queue lacks and the document still holds.
C9_Witness ==
    /\ last.op = "resume" /\ last.returned
    /\ chunks_json.state = "ok"
    /\ Cardinality(last.done_chunk_names) >= 2
    /\ Len(last.queue) = Len(chunks_json.dicts) - 2

BothProcesses == {"pipe", "ffmpeg_gen_pipe"}

C10_State ==
    \A c \in Pipelines :
        /\ pipes[c].ffmpeg_gen_pipe.status # "none" =>
                pipes[c].ffmpeg_gen_pipe.cmd = <<"chunk.ffmpeg_gen_cmd", c>>
        /\ pipes[c].pipe.status # "none" =>
                /\ pipes[c].ffmpeg_gen_pipe.status # "none"
                /\ pipes[c].pipe.stdin = pipes[c].ffmpeg_gen_pipe.stdout
        /\ pipes[c].pc = "returned" =>
                /\ pipes[c].waited = BothProcesses
                /\ \A w \in BothProcesses : pipes[c][w].status = "exited"
                /\ pipes[c].result = pipes[c].fl_path
        /\ \A d \in Pipelines \ {c} :
                pipes[c].ffmpeg_gen_pipe.status # "none" =>
                    /\ pipes[c].ffmpeg_gen_pipe.stdout # pipes[d].ffmpeg_gen_pipe.stdout
                    /\ pipes[c].ffmpeg_gen_pipe.stdout # pipes[d].pipe.stdin

C10_Step ==
    \A c \in Pipelines :
        /\ (pipes[c].pipe.status = "none" /\ pipes'[c].pipe.status # "none") =>
                pipes[c].ffmpeg_gen_pipe.status # "none"
        /\ pipes'[c] # pipes[c] => \A d \in Pipelines \ {c} : pipes'[d] = pipes[d]

\* C10: in every call of call_vmaf the upstream process (chunk.ffmpeg_gen_cmd)
\* is started first, the downstream process is started after it with the
\* upstream's stdout as its stdin, the path is returned only after both have
\* been waited on, and a step of one chunk's pipeline changes no other's.
C10_Pipeline == []C10_State /\ [][C10_Step]_vars

\* C10's case: one chunk's call has returned its path while another chunk's
\* two processes are running.
C10_Witness ==
    \E c, d \in Pipelines :
        /\ c # d
        /\ pipes[c].pc = "returned"
        /\ pipes[d].pc = "downstream_started"
        /\ pipes[d].pipe.status = "running" /\ pipes[d].ffmpeg_gen_pipe.status = "running"

====
